---- MODULE Spec2Model ----
(***************************************************************************)
(* Model of gastitan/rsi-monitor:                                          *)
(*   - value_investment_monitor.py : ValueInvestmentMonitor (single-shot   *)
(*     run_analysis over a watch-list, classify_opportunity, ranking,      *)
(*     send_opportunity_alert, is_market_hours);                           *)
(*   - rsi_monitor_github.py : RSIMonitor (check_rsi_alert and the         *)
(*     monitor_stocks loop with its error backoff and stop signal).        *)
(*                                                                         *)
(* Floats are modelled as integers, each by what the program reads of it.  *)
(* In the value monitor an RSI, a performance and a distance are compared  *)
(* with whole numbers only and are kept in tenths rounded down (Tenths):   *)
(* an RSI of 22.5 is 225, a performance of -25% is -250.  The two MACD     *)
(* lines are compared with each other only, and the histogram with 0 only: *)
(* the lines are kept by their order (the lower one 0, the higher one 1,   *)
(* equal ones both 0) and the histogram by its sign (-1, 0, 1).  The RSI   *)
(* monitor compares the RSI with the threshold and rounds it to two        *)
(* decimals through its product with 100: there a double is kept by its    *)
(* place among the thousandths and the place of that product among the     *)
(* tenths (Double), and the rounded RSI in hundredths.  NaN is a           *)
(* distinguished value whose ordered comparisons are all false, as in      *)
(* IEEE-754.                                                               *)
(* A watch-list of n symbols is <<1, ..., n>>: a symbol is named by its    *)
(* position in the list.                                                   *)
(***************************************************************************)
EXTENDS Integers, Sequences, FiniteSets, TLC

VARIABLES
    program,        \* which script runs: "value", "rsi", or a unit harness
    stock_list,     \* the watch-list handed to run_analysis / monitor_stocks
    fetches,        \* what the market-data capability was asked and gave, this cycle
    \* ---- value_investment_monitor.py, run_analysis ----
    vpc,            \* position in run_analysis
    market,         \* result of the is_market_hours call of this cycle
    clockFailed,    \* the clock read inside is_market_hours raised
    vi,             \* index of the next symbol of the for loop
    analyses,       \* what get_stock_analysis returned, per symbol, in order
    opportunities,  \* the local list `opportunities`
    notified,       \* messages handed to send_telegram_message by send_opportunity_alert
    summary,        \* the counts logged by the final logging.info of run_analysis
    \* ---- rsi_monitor_github.py, monitor_stocks ----
    rpc,            \* position in monitor_stocks
    clockDefined,   \* RSIMonitor has is_market_open / get_next_market_open
    ri,             \* index of the next symbol of the for loop
    results,        \* the local list `results`
    roundLog,       \* the counts logged at the end of the current round
    lastSleep,      \* seconds of the latest time.sleep call (0: none yet)
    consecErrors,   \* consecutive passes through the generic error handler
    rMarket,        \* what the latest market check of monitor_stocks answered
    stopSignal,     \* a KeyboardInterrupt has been delivered
    \* ---- unit harnesses for the pure functions ----
    arg,            \* the argument handed to the function under test
    ret,            \* what it returned
    hpc,            \* harness position
    \* ---- the two main() functions ----
    config,         \* which of TELEGRAM_BOT_TOKEN / TELEGRAM_CHAT_ID main() found set
    exitStatus,     \* exit status of the process (Running until it ends)
    notices         \* notifications other than alerts: start and status messages

vars == <<program, stock_list, fetches, vpc, market, clockFailed, vi, analyses,
          opportunities, notified, summary, rpc, clockDefined, ri, results,
          roundLog, lastSleep, consecErrors, rMarket, stopSignal, arg, ret, hpc,
          config, exitStatus, notices>>

valueVars == <<vpc, market, clockFailed, vi, analyses, opportunities, notified, summary>>
rsiVars == <<rpc, ri, results, roundLog, lastSleep, consecErrors, rMarket, stopSignal>>
harnessVars == <<arg, ret, hpc>>
mainVars == <<config, exitStatus, notices>>

(***************************************************************************)
(* Bounds                                                                  *)
(***************************************************************************)
ValueWatchLen == 6      \* longest watch-list handed to run_analysis
RsiWatchLen == 4        \* longest watch-list handed to monitor_stocks
MaxErrors == 3          \* consecErrors saturates here
LowCapWatchLen == 3     \* longest watch-list that is handed LowCapFeed
FineRsiWatchLen == 2    \* longest watch-list that is handed RoundingFeeds

(***************************************************************************)
(* Numbers                                                                 *)
(***************************************************************************)
Tenths(x) == 10 * x
Hundredths(x) == 100 * x

\* The place of a double among the doubles k/unit, in an order-keeping
\* code: 2k when it is k/unit, 2k + 1 when it lies strictly between k/unit
\* and (k + 1)/unit.
Exactly(k) == 2 * k
Between(k) == 2 * k + 1
Thousandths(x) == Exactly(1000 * x)

\* A double x of the RSI monitor: its place among the thousandths and the
\* place of the double x * 100 among the tenths.  The product is rounded to
\* the nearest double, so the second place is the first one, the one before
\* or the one after.
Double(place, times100) == 3 * place + (times100 - place) + 1
Plain(place) == Double(place, place)
NaN == 0 - 1048576

FLt(a, b) == a # NaN /\ b # NaN /\ a < b
FGt(a, b) == FLt(b, a)
FSub(a, b) == IF a = NaN \/ b = NaN THEN NaN ELSE a - b
Sign(x) == IF x = NaN THEN NaN ELSE IF x > 0 THEN 1 ELSE IF x < 0 THEN 0 - 1 ELSE 0
PlaceOf(x) == IF x = NaN THEN NaN ELSE x \div 3
Times100(x) == IF x = NaN THEN NaN ELSE (x \div 3) + (x % 3) - 1
Min(a, b) == IF a < b THEN a ELSE b

None == [none |-> TRUE]

WatchList(n) == [k \in 1..n |-> k]

(***************************************************************************)
(* Market clock of the value monitor                                       *)
(***************************************************************************)
Instants == [ok : {TRUE}, weekday : 0..6, hour : 0..23, minute : 0..59]
ClockError == [ok |-> FALSE, weekday |-> 0, hour |-> 0, minute |-> 0]
ClockReads == Instants \cup {ClockError}

is_market_hours_before_half(now_ny) ==
    IF ~now_ny.ok THEN TRUE
    ELSE IF now_ny.weekday >= 5 THEN FALSE
    ELSE \/ (9 <= now_ny.hour /\ now_ny.hour < 16)
         \/ (now_ny.hour = 16 /\ now_ny.minute < 30)

is_market_hours_fail_closed(now_ny) ==
    IF ~now_ny.ok THEN FALSE
    ELSE IF now_ny.weekday >= 5 THEN FALSE
    ELSE \/ (9 <= now_ny.hour /\ now_ny.hour < 16)
         \/ (now_ny.hour = 16 /\ now_ny.minute <= 30)

is_market_hours(now_ny) ==
    IF ~now_ny.ok THEN TRUE
    ELSE IF now_ny.weekday >= 5 THEN FALSE
    ELSE \/ (9 <= now_ny.hour /\ now_ny.hour < 16)
         \/ (now_ny.hour = 16 /\ now_ny.minute <= 30)

(***************************************************************************)
(* Indicator library of the value monitor.  The market-data capability is  *)
(* a feed: what yfinance hands back for one symbol in one cycle, together  *)
(* with the values the rolling computations reach at the latest bar.       *)
(*   history   "raise" : stock.history / stock.info raises                 *)
(*   bars      number of bars of the series (0: data.empty)                *)
(*   market_cap in millions of dollars; Missing: stock.info has no       *)
(*             'marketCap' key; Null: the key is there and holds a null    *)
(***************************************************************************)
CapFloor == 10 * 1000      \* 10_000_000_000 dollars, in millions
Missing == 0 - 2
Null == 0 - 4

\* info.get(key, default)
info_get(value, default) == IF value = Missing THEN default ELSE value

\* Texts are kept by what they are, not by their letters.  stock.info may
\* hold no 'longName' key (Absent), a text, or a null (None).
Text(what) == [none |-> FALSE, text |-> what]
Absent == [absent |-> TRUE]

\* info.get('longName', symbol): the default only replaces an absent key
name_get(value, symbol) == IF value = Absent THEN Text("symbol") ELSE value
Lookback1m == 21
Lookback3m == 63

calculate_macd_cross_or_touch(macd_line, signal_line) ==
    [macd      |-> macd_line,
     signal    |-> signal_line,
     histogram |-> Sign(FSub(macd_line, signal_line)),
     crossover |-> macd_line # NaN /\ signal_line # NaN /\ macd_line >= signal_line]

\* calculate_macd on the latest values of the two lines, kept by their
\* order.  histogram is the double macd_line - signal_line, kept by its
\* sign: the difference of two doubles is 0 only when they are equal and
\* has the sign of their order otherwise, and is NaN when either is;
\* crossover is the comparison macd_line > signal_line.
calculate_macd(macd_line, signal_line) ==
    [macd      |-> macd_line,
     signal    |-> signal_line,
     histogram |-> Sign(FSub(macd_line, signal_line)),
     crossover |-> FGt(macd_line, signal_line)]

calculate_support_resistance(distance_from_low) ==
    [distance_from_low |-> distance_from_low,
     near_support      |-> FLt(distance_from_low, Tenths(5))]

Failure(symbol, error) == [symbol |-> symbol, success |-> FALSE, error |-> error]

get_stock_analysis_no_cap_floor(symbol, feed) ==
    IF feed.history = "raise" THEN Failure(symbol, "history")
    ELSE IF feed.bars = 0 THEN None
    ELSE IF feed.bars < Lookback1m \/ feed.bars < Lookback3m
         THEN Failure(symbol, "single positional indexer is out-of-bounds")
    ELSE [symbol             |-> symbol,
          company_name       |-> name_get(feed.long_name, symbol),
          market_cap         |-> feed.market_cap,
          rsi                |-> feed.rsi,
          macd               |-> calculate_macd(feed.macd_line, feed.signal_line),
          support_resistance |-> calculate_support_resistance(feed.distance_from_low),
          performance        |-> [p1m |-> feed.perf_1m, p3m |-> feed.perf_3m],
          success            |-> TRUE]

\* `market_cap < 10_000_000_000` raises TypeError on a null capitalisation,
\* as iloc does IndexError on a short series: both end in the except clause.
get_stock_analysis(symbol, feed) ==
    IF feed.history = "raise" THEN Failure(symbol, "history")
    ELSE IF feed.bars = 0 THEN None
    ELSE IF info_get(feed.market_cap, 0) = Null
         THEN Failure(symbol, "'<' not supported between 'NoneType' and 'int'")
    ELSE IF info_get(feed.market_cap, 0) < CapFloor THEN None
    ELSE IF feed.bars < Lookback1m \/ feed.bars < Lookback3m
         THEN Failure(symbol, "single positional indexer is out-of-bounds")
    ELSE [symbol             |-> symbol,
          company_name       |-> name_get(feed.long_name, symbol),
          market_cap         |-> feed.market_cap,
          rsi                |-> feed.rsi,
          macd               |-> calculate_macd(feed.macd_line, feed.signal_line),
          support_resistance |-> calculate_support_resistance(feed.distance_from_low),
          performance        |-> [p1m |-> feed.perf_1m, p3m |-> feed.perf_3m],
          success            |-> TRUE]

(***************************************************************************)
(* Opportunity classifier.  Each scoring block of classify_opportunity     *)
(* takes the running (score, reasons) pair and returns the updated one.    *)
(***************************************************************************)
Add(acc, delta, reason) ==
    [score |-> acc.score + delta, reasons |-> Append(acc.reasons, reason)]

rsi_scoring_double(acc, rsi) ==
    LET a1 == IF FLt(rsi, Tenths(25)) THEN Add(acc, 3, "RSI extremadamente bajo") ELSE acc
        a2 == IF FLt(rsi, Tenths(30)) THEN Add(a1, 2, "RSI en sobreventa") ELSE a1
    IN  IF FLt(rsi, Tenths(40)) THEN Add(a2, 1, "RSI moderadamente bajo") ELSE a2

rsi_scoring(acc, rsi) ==
    IF FLt(rsi, Tenths(25)) THEN Add(acc, 3, "RSI extremadamente bajo")
    ELSE IF FLt(rsi, Tenths(30)) THEN Add(acc, 2, "RSI en sobreventa")
    ELSE IF FLt(rsi, Tenths(40)) THEN Add(acc, 1, "RSI moderadamente bajo")
    ELSE acc

\* `macd['histogram'] > 0` reads the sign of the histogram
macd_scoring(acc, macd) ==
    IF macd.crossover /\ FGt(macd.histogram, 0) THEN Add(acc, 2, "MACD cruzando alcista")
    ELSE IF macd.crossover THEN Add(acc, 1, "MACD iniciando giro alcista")
    ELSE acc

performance_scoring(acc, performance_3m) ==
    IF FLt(performance_3m, Tenths(0 - 20)) THEN Add(acc, 2, "Caida significativa 3M")
    ELSE IF FLt(performance_3m, Tenths(0 - 10)) THEN Add(acc, 1, "Correccion moderada 3M")
    ELSE acc

support_scoring(acc, near_support) ==
    IF near_support THEN Add(acc, 1, "Cerca de nivel de soporte") ELSE acc

classification_strict(acc) ==
    IF acc.score > 5 THEN [level |-> "EXCELENTE", score |-> acc.score, reasons |-> acc.reasons]
    ELSE IF acc.score >= 3 THEN [level |-> "BUENA", score |-> acc.score, reasons |-> acc.reasons]
    ELSE IF acc.score >= 1 THEN [level |-> "MODERADA", score |-> acc.score, reasons |-> acc.reasons]
    ELSE None

classification(acc) ==
    IF acc.score >= 5 THEN [level |-> "EXCELENTE", score |-> acc.score, reasons |-> acc.reasons]
    ELSE IF acc.score >= 3 THEN [level |-> "BUENA", score |-> acc.score, reasons |-> acc.reasons]
    ELSE IF acc.score >= 1 THEN [level |-> "MODERADA", score |-> acc.score, reasons |-> acc.reasons]
    ELSE None

classify_opportunity(analysis) ==
    IF analysis = None \/ ~analysis.success THEN None
    ELSE LET a0 == [score |-> 0, reasons |-> <<>>]
             a1 == rsi_scoring(a0, analysis.rsi)
             a2 == macd_scoring(a1, analysis.macd)
             a3 == performance_scoring(a2, analysis.performance.p3m)
             a4 == support_scoring(a3, analysis.support_resistance.near_support)
         IN  classification(a4)

(***************************************************************************)
(* Ranking and reporting of run_analysis                                   *)
(***************************************************************************)
TopN == 5

Score(x) == x.opportunity.score

\* list.sort(key=score, reverse=True): stable, descending.
RECURSIVE InsertDesc(_, _)
InsertDesc(sorted, x) ==
    IF sorted = <<>> THEN <<x>>
    ELSE IF Score(Head(sorted)) >= Score(x)
         THEN <<Head(sorted)>> \o InsertDesc(Tail(sorted), x)
         ELSE <<x>> \o sorted

RECURSIVE SortFrom(_, _)
SortFrom(sorted, rest) ==
    IF rest = <<>> THEN sorted
    ELSE SortFrom(InsertDesc(sorted, Head(rest)), Tail(rest))

sort_by_score_unstable(opps) ==
    LET RECURSIVE Ins(_, _)
        Ins(sorted, x) ==
            IF sorted = <<>> THEN <<x>>
            ELSE IF Score(Head(sorted)) > Score(x)
                 THEN <<Head(sorted)>> \o Ins(Tail(sorted), x)
                 ELSE <<x>> \o sorted
        RECURSIVE Go(_, _)
        Go(sorted, rest) ==
            IF rest = <<>> THEN sorted ELSE Go(Ins(sorted, Head(rest)), Tail(rest))
    IN  Go(<<>>, opps)

sort_by_score(opps) == SortFrom(<<>>, opps)

Slice(s, n) == SubSeq(s, 1, Min(n, Len(s)))

main_reasons_all(opportunity) == opportunity.reasons

main_reasons(opportunity) == Slice(opportunity.reasons, 2)

\* The body of the message send_opportunity_alert builds: one entry per
\* opportunity it was handed, in order.
opportunity_message(opps) ==
    [k \in 1..Len(opps) |->
        [symbol       |-> opps[k].analysis.symbol,
         company_name |-> opps[k].analysis.company_name,
         level        |-> opps[k].opportunity.level,
         score        |-> opps[k].opportunity.score,
         reasons      |-> main_reasons(opps[k].opportunity)]]

\* len(analysis['company_name']) raises TypeError on a null name, while the
\* message is being built and before anything is sent.
TypeError == [raised |-> "TypeError"]

message_builds(opps) ==
    \A k \in 1..Len(opps) : opps[k].analysis.company_name # None

\* send_opportunity_alert: the message goes to send_telegram_message, whose
\* boolean result is dropped.
send_opportunity_alert(opps, delivered) ==
    IF message_builds(opps)
    THEN [entries |-> opportunity_message(opps), delivered |-> delivered]
    ELSE TypeError

(***************************************************************************)
(* Market data the value monitor can be handed.                            *)
(***************************************************************************)
\* perf_1m is reported in the analysis and read by nothing: feeds leave it 0
Feed(h, b, cap, rsi, ml, sl, perf, dist) ==
    [history |-> h, bars |-> b, market_cap |-> cap, long_name |-> Text("longName"),
     rsi |-> rsi,
     macd_line |-> ml, signal_line |-> sl, perf_1m |-> 0, perf_3m |-> perf,
     distance_from_low |-> dist]

\* Representative feeds for the symbols of a long watch-list: a raising
\* fetch, an empty series, and analyses scoring 0, 2 and 5.
CoarseFeeds ==
    { Feed("raise", 126, 50000, 225, 1, 0, -250, 10),
      Feed("ok",      0, 50000, 225, 1, 0, -250, 10),
      Feed("ok",    126, 50000, 500, 0, 1,    0, 200),
      Feed("ok",    126, 50000, 270, 0, 1,    0, 200),
      Feed("ok",    126, 50000, 225, 1, 0,    0, 200) }

\* Every band boundary of every input, for a watch-list of one symbol.
RsiValues == {NaN, 0, 225, 249, 250, 299, 300, 399, 400, 1000}
\* The latest MACD and signal values by their order: above, equal, below,
\* and a MACD that is NaN
MacdPairs == {<<1, 0>>, <<0, 0>>, <<0, 1>>, <<NaN, 0>>}
PerfValues == {NaN, -250, -201, -200, -101, -100, 0}
DistValues == {NaN, 10, 49, 50}

FineFeeds ==
    { Feed(h, b, cap, rsi, m[1], m[2], perf, dist) :
        h \in {"ok"}, b \in {62, 126}, cap \in {Missing, Null, 9999, 10000},
        rsi \in RsiValues, m \in MacdPairs, perf \in PerfValues, dist \in DistValues }

\* A company below the capitalisation floor whose indicators would score 8
LowCapFeed == Feed("ok", 126, 9999, 225, 1, 0, -250, 10)

\* Companies whose stock.info holds no long name, or a null one: analyses
\* scoring 0 and 5.
NameFeeds ==
    { [Feed("ok", 126, 50000, rsi, 1, 0, 0, 200) EXCEPT !.long_name = name] :
        rsi \in {500, 225}, name \in {Absent, None} }

ValueFeeds(list) ==
    IF Len(list) = 1 THEN FineFeeds \cup CoarseFeeds \cup NameFeeds
    ELSE IF Len(list) <= LowCapWatchLen THEN CoarseFeeds \cup {LowCapFeed} \cup NameFeeds
    ELSE CoarseFeeds

\* Record of the evaluation of one symbol: the symbol asked for, what the
\* market-data capability gave back (the series and company data, and the
\* RSI computed on the series), and the outcome of every alert sent while
\* the symbol was evaluated.
Fetched(symbol, feed) ==
    [symbol |-> symbol, history |-> feed.history, bars |-> feed.bars,
     market_cap |-> IF "market_cap" \in DOMAIN feed THEN feed.market_cap ELSE 0,
     calc |-> IF "calc" \in DOMAIN feed THEN feed.calc ELSE "ok",
     rsi |-> feed.rsi,
     sends |-> <<>>]

\* The same record while stock.history has been called and has not answered
Asked(symbol) ==
    [symbol |-> symbol, history |-> "asked", bars |-> 0, market_cap |-> 0,
     calc |-> "ok", rsi |-> NaN, sends |-> <<>>]

(***************************************************************************)
(* value_investment_monitor.py: run_analysis                               *)
(***************************************************************************)
IdleValue ==
    /\ vpc = "idle" /\ market = "unchecked" /\ clockFailed = FALSE /\ vi = 0
    /\ analyses = <<>> /\ opportunities = <<>> /\ notified = <<>> /\ summary = <<>>

IdleRsi ==
    /\ rpc = "idle" /\ clockDefined = FALSE /\ ri = 0 /\ results = <<>>
    /\ roundLog = None /\ lastSleep = 0 /\ consecErrors = 0
    /\ rMarket = "unchecked" /\ stopSignal = FALSE

IdleHarness == arg = None /\ ret = None /\ hpc = "idle"

\* Exit status of a process that has not ended
Running == 0 - 1

\* Exit status, as a shell reports it, of a process ended by an uncaught
\* KeyboardInterrupt
KilledBySigint == 130

IdleMain == config = None /\ exitStatus = Running /\ notices = <<>>

\* What os.getenv finds: TRUE for a variable set to a non-empty string
Configs == [bot_token : BOOLEAN, chat_id : BOOLEAN]

ConfigComplete(c) == c.bot_token /\ c.chat_id

InitValue ==
    /\ program = "value"
    /\ \E n \in 1..ValueWatchLen : stock_list = WatchList(n)
    /\ config \in Configs
    /\ exitStatus = Running /\ notices = <<>>
    /\ vpc = "main" /\ market = "unchecked" /\ clockFailed = FALSE /\ vi = 0
    /\ analyses = <<>> /\ opportunities = <<>> /\ notified = <<>> /\ summary = <<>>
    /\ fetches = <<>>
    /\ IdleRsi /\ IdleHarness

\* main(): `if not BOT_TOKEN or not CHAT_ID: logging.error(...); exit(1)`,
\* otherwise the monitor is built and run_analysis is called.
VMain ==
    /\ program = "value" /\ vpc = "main"
    /\ IF ConfigComplete(config)
       THEN vpc' = "start" /\ UNCHANGED exitStatus
       ELSE vpc' = "exited" /\ exitStatus' = 1
    /\ UNCHANGED <<program, stock_list, market, clockFailed, vi, analyses, opportunities, notified, summary>>
    /\ UNCHANGED <<config, notices>>
    /\ UNCHANGED rsiVars /\ UNCHANGED clockDefined /\ UNCHANGED harnessVars
    /\ UNCHANGED fetches

\* main(): run_analysis has returned; the script ends
VMainReturn ==
    /\ program = "value" /\ vpc = "done" /\ exitStatus = Running
    /\ exitStatus' = 0
    /\ UNCHANGED valueVars
    /\ UNCHANGED <<program, stock_list, config, notices>>
    /\ UNCHANGED rsiVars /\ UNCHANGED clockDefined /\ UNCHANGED harnessVars
    /\ UNCHANGED fetches

\* run_analysis, the market gate: `if not self.is_market_hours(): return`
VCheckMarketOpen ==
    /\ program = "value" /\ vpc = "start"
    /\ \E now_ny \in ClockReads :
          /\ is_market_hours(now_ny)
          /\ clockFailed' = ~now_ny.ok
    /\ market' = "open"
    /\ vpc' = "loop"
    /\ vi' = 1
    /\ UNCHANGED <<program, stock_list, analyses, opportunities, notified, summary>>
    /\ UNCHANGED rsiVars /\ UNCHANGED clockDefined /\ UNCHANGED harnessVars
    /\ UNCHANGED fetches
    /\ UNCHANGED mainVars

VCheckMarketClosed_no_return ==
    /\ program = "value" /\ vpc = "start"
    /\ \E now_ny \in ClockReads :
          /\ ~is_market_hours(now_ny)
          /\ clockFailed' = ~now_ny.ok
    /\ market' = "closed"
    /\ vpc' = "loop"
    /\ vi' = 1
    /\ UNCHANGED <<program, stock_list, analyses, opportunities, notified, summary>>
    /\ UNCHANGED rsiVars /\ UNCHANGED clockDefined /\ UNCHANGED harnessVars
    /\ UNCHANGED fetches
    /\ UNCHANGED mainVars

VCheckMarketClosed ==
    /\ program = "value" /\ vpc = "start"
    /\ \E now_ny \in ClockReads :
          /\ ~is_market_hours(now_ny)
          /\ clockFailed' = ~now_ny.ok
    /\ market' = "closed"
    /\ vpc' = "done"
    /\ UNCHANGED <<program, stock_list, vi, analyses, opportunities, notified, summary>>
    /\ UNCHANGED rsiVars /\ UNCHANGED clockDefined /\ UNCHANGED harnessVars
    /\ UNCHANGED fetches
    /\ UNCHANGED mainVars

\* One iteration of `for symbol in stock_list`
appended_opportunities(opps, analysis) ==
    IF analysis # None /\ analysis.success
    THEN LET opportunity == classify_opportunity(analysis)
         IN  IF opportunity # None
             THEN Append(opps, [analysis |-> analysis, opportunity |-> opportunity])
             ELSE opps
    ELSE opps

VAnalyze ==
    /\ program = "value" /\ vpc = "loop" /\ vi <= Len(stock_list)
    /\ \E feed \in ValueFeeds(stock_list) :
          LET analysis == get_stock_analysis(stock_list[vi], feed)
          IN  /\ analyses' = Append(analyses, analysis)
              /\ opportunities' = appended_opportunities(opportunities, analysis)
              /\ fetches' = Append(fetches, Fetched(stock_list[vi], feed))
    /\ vi' = vi + 1
    /\ UNCHANGED <<program, stock_list, vpc, market, clockFailed, notified, summary>>
    /\ UNCHANGED rsiVars /\ UNCHANGED clockDefined /\ UNCHANGED harnessVars
    /\ UNCHANGED mainVars

\* After the loop: sort, and alert with the top 5 if there is any opportunity.
\* send_telegram_message returns True or False and never raises; an error
\* raised while the message is built leaves run_analysis.
VReport ==
    /\ program = "value" /\ vpc = "loop" /\ vi > Len(stock_list)
    /\ opportunities' = sort_by_score(opportunities)
    /\ IF opportunities' # <<>>
       THEN \E delivered \in BOOLEAN :
               LET sent == send_opportunity_alert(Slice(opportunities', TopN), delivered)
               IN  IF sent = TypeError
                   THEN notified' = notified /\ vpc' = "raised"
                   ELSE notified' = Append(notified, sent) /\ vpc' = "log"
       ELSE notified' = notified /\ vpc' = "log"
    /\ UNCHANGED <<program, stock_list, market, clockFailed, vi, analyses, summary>>
    /\ UNCHANGED rsiVars /\ UNCHANGED clockDefined /\ UNCHANGED harnessVars
    /\ UNCHANGED fetches
    /\ UNCHANGED mainVars

\* logging.info("Analisis completado: {len(opportunities)} oportunidades")
VLogSummary ==
    /\ program = "value" /\ vpc = "log"
    /\ summary' = Append(summary, Len(opportunities))
    /\ vpc' = "done"
    /\ UNCHANGED <<program, stock_list, market, clockFailed, vi, analyses, opportunities, notified>>
    /\ UNCHANGED rsiVars /\ UNCHANGED clockDefined /\ UNCHANGED harnessVars
    /\ UNCHANGED fetches
    /\ UNCHANGED mainVars

\* main(): `except Exception as e: logging.error(...); exit(1)`
VMainExcept ==
    /\ program = "value" /\ vpc = "raised" /\ exitStatus = Running
    /\ exitStatus' = 1
    /\ UNCHANGED valueVars
    /\ UNCHANGED <<program, stock_list, config, notices>>
    /\ UNCHANGED rsiVars /\ UNCHANGED clockDefined /\ UNCHANGED harnessVars
    /\ UNCHANGED fetches

NextValue ==
    \/ VMain \/ VCheckMarketOpen \/ VCheckMarketClosed \/ VAnalyze \/ VReport
    \/ VLogSummary \/ VMainReturn \/ VMainExcept

(***************************************************************************)
(* rsi_monitor_github.py: RSIMonitor                                       *)
(***************************************************************************)
RsiThreshold == 30          \* RSI_THRESHOLD
CheckInterval == 1800       \* CHECK_INTERVAL, seconds
SymbolPause == 3            \* time.sleep(3) between symbols
ErrorBackoff == 300         \* time.sleep(300) in the generic handler
MaxWait == 3600             \* min(wait_time, 3600)

RSIMonitorMethods_with_clock ==
    {"__init__", "calculate_rsi", "get_stock_data", "send_telegram_message",
     "check_rsi_alert", "monitor_stocks", "is_market_open", "get_next_market_open"}

\* Methods the class RSIMonitor defines.
RSIMonitorMethods ==
    {"__init__", "calculate_rsi", "get_stock_data", "send_telegram_message",
     "check_rsi_alert", "monitor_stocks"}

\* Methods monitor_stocks calls that the class does not define: the market
\* clock of the specification (section 4.3).  clockDefined tells whether the
\* object at hand has been given them.
MarketClockMethods == {"is_market_open", "get_next_market_open"}

Methods == RSIMonitorMethods \cup (IF clockDefined THEN MarketClockMethods ELSE {})

\* Names bound at module level by the import statements of the script.
ModuleNames == {"yf", "pd", "np", "requests", "time", "datetime", "logging"}

\* The RSI monitor's feed: the RSI the rolling computation reaches, by its
\* place among the thousandths, and what Telegram answers to an alert.
RsiFeed(h, b, calc, rsi, tg) ==
    [history |-> h, bars |-> b, calc |-> calc, rsi |-> rsi, telegram |-> tg]

RsiFeeds ==
    { RsiFeed("raise", 60, "ok", Plain(Between(29900)), "200"),
      RsiFeed("ok",     0, "ok", Plain(Between(29900)), "200"),
      RsiFeed("ok",    60, "raise", Plain(Between(29900)), "200"),
      RsiFeed("ok",    60, "ok", NaN, "200"),
      RsiFeed("ok",    60, "ok", Plain(Exactly(30000)), "200"),
      RsiFeed("ok",    60, "ok", Plain(Between(29900)), "200"),
      RsiFeed("ok",    60, "ok", Plain(Between(29900)), "500"),
      RsiFeed("ok",    60, "ok", Plain(Between(29900)), "timeout") }

\* An RSI just above 29.996: below the threshold, and 30.0 once rounded.
\* An RSI of 28.125, halfway between two hundredths, and one just above it.
\* An RSI so little below 20.095 that its product with 100 is 2009.5.
RoundingFeeds ==
    { RsiFeed("ok", 60, "ok", rsi, "200") :
        rsi \in {Plain(Between(29996)), Plain(Exactly(28125)), Plain(Between(28125)),
                 Double(Between(20094), Exactly(20095))} }

RsiFeedsFor(list) ==
    IF Len(list) <= FineRsiWatchLen THEN RsiFeeds \cup RoundingFeeds ELSE RsiFeeds

\* get_stock_data: None on an exception or on an empty frame
get_stock_data(feed) ==
    IF feed.history = "raise" THEN None
    ELSE IF feed.bars = 0 THEN None
    ELSE feed

\* send_telegram_message: True only on HTTP 200; an exception gives False
send_telegram_message(outcome) == outcome = "200"

alert_condition_or_equal(rsi, rsi_threshold) ==
    rsi # NaN /\ PlaceOf(rsi) <= Thousandths(rsi_threshold)

\* `if rsi < rsi_threshold:`
alert_condition(rsi, rsi_threshold) ==
    FLt(PlaceOf(rsi), Thousandths(rsi_threshold))

\* round(rsi, 2) of a numpy.float64, in hundredths: rsi * 100 as a double,
\* taken to the nearest whole number, and to the even one when that double
\* is exactly halfway; then divided by 100.  A product strictly between k
\* and k + 1 tenths is past the half as soon as k ends in 5.
round2(x) ==
    IF x = NaN THEN NaN
    ELSE LET q == Times100(x)
             k == q \div 2
             h == k \div 10
         IN  IF q % 2 = 0 /\ k % 10 = 5
             THEN (IF h % 2 = 0 THEN h ELSE h + 1)
             ELSE (k + 5) \div 10

\* The result keeps the rounded RSI; the threshold test reads the RSI as
\* computed.
check_rsi_alert(symbol, rsi_threshold, feed) ==
    LET data == get_stock_data(feed)
    IN  IF data = None
        THEN Failure(symbol, "No se pudieron obtener datos")
        ELSE IF data.calc = "raise"
        THEN Failure(symbol, "calc")
        ELSE [symbol     |-> symbol,
              rsi        |-> round2(data.rsi),
              success    |-> TRUE,
              alert_sent |-> IF alert_condition(data.rsi, rsi_threshold)
                             THEN send_telegram_message(data.telegram)
                             ELSE FALSE]

\* The send_telegram_message calls of one check_rsi_alert call, by result
check_rsi_alert_sends(symbol, rsi_threshold, feed) ==
    LET data == get_stock_data(feed)
    IN  IF data = None \/ data.calc = "raise" THEN <<>>
        ELSE IF alert_condition(data.rsi, rsi_threshold)
        THEN <<send_telegram_message(data.telegram)>>
        ELSE <<>>

\* r['success'] and r.get('alert_sent', False)
IsSuccess(r) == r.success
IsAlertSent(r) == r.success /\ r.alert_sent

round_summary(res, list) ==
    [successful  |-> Cardinality({k \in 1..Len(res) : IsSuccess(res[k])}),
     total       |-> Len(list),
     alerts_sent |-> Cardinality({k \in 1..Len(res) : IsAlertSent(res[k])})]

\* main() of the script: BOT_TOKEN and CHAT_ID are string literals of the
\* source, so the configuration test passes and main() is about to send
\* the start message.
InitRsi ==
    /\ program = "rsi"
    /\ \E n \in 1..RsiWatchLen : stock_list = WatchList(n)
    /\ clockDefined \in BOOLEAN
    /\ rpc = "start" /\ ri = 0 /\ results = <<>>
    /\ roundLog = None /\ lastSleep = 0 /\ consecErrors = 0
    /\ rMarket = "unchecked" /\ stopSignal = FALSE
    /\ fetches = <<>>
    /\ config = [bot_token |-> TRUE, chat_id |-> TRUE]
    /\ exitStatus = Running
    /\ notices = <<>>
    /\ IdleValue /\ IdleHarness

\* main(): `monitor.send_telegram_message(start_message)`, outside any try
\* block; its result is dropped.  Then monitor_stocks is entered.
RStartMessage ==
    /\ program = "rsi" /\ rpc = "start"
    /\ notices' = Append(notices, "start")
    /\ rpc' = "banner"
    /\ UNCHANGED <<config, exitStatus>>
    /\ UNCHANGED <<program, stock_list, clockDefined, ri, results, roundLog, lastSleep,
                   consecErrors, rMarket, stopSignal>>
    /\ UNCHANGED valueVars /\ UNCHANGED harnessVars
    /\ UNCHANGED fetches

\* monitor_stocks: the four logging.info lines before `while True: try:`
RBanner ==
    /\ program = "rsi" /\ rpc = "banner"
    /\ rpc' = "check"
    /\ UNCHANGED <<program, stock_list, clockDefined, ri, results, roundLog, lastSleep,
                   consecErrors, rMarket, stopSignal>>
    /\ UNCHANGED valueVars /\ UNCHANGED harnessVars
    /\ UNCHANGED fetches
    /\ UNCHANGED mainVars

EnterBackoff_gives_up ==
    /\ rpc' = IF consecErrors + 1 >= MaxErrors THEN "stopped" ELSE "backoff"
    /\ lastSleep' = ErrorBackoff
    /\ consecErrors' = Min(consecErrors + 1, MaxErrors)

\* `except Exception as e: ...; time.sleep(300)`
EnterBackoff ==
    /\ rpc' = "backoff"
    /\ lastSleep' = ErrorBackoff
    /\ consecErrors' = Min(consecErrors + 1, MaxErrors)

\* `if not self.is_market_open()` on a class without that method: AttributeError
RMarketCheckRaises ==
    /\ program = "rsi" /\ rpc = "check"
    /\ "is_market_open" \notin Methods
    /\ rMarket' = "raised"
    /\ EnterBackoff
    /\ UNCHANGED <<program, stock_list, clockDefined, ri, results, roundLog, stopSignal>>
    /\ UNCHANGED valueVars /\ UNCHANGED harnessVars
    /\ UNCHANGED fetches
    /\ UNCHANGED mainVars

\* The market is open: a new round starts
RMarketOpen ==
    /\ program = "rsi" /\ rpc = "check"
    /\ "is_market_open" \in Methods
    /\ rpc' = "fetch"
    /\ ri' = 1
    /\ results' = <<>>
    /\ roundLog' = None
    /\ consecErrors' = 0
    /\ rMarket' = "open"
    /\ fetches' = <<>>
    /\ UNCHANGED <<program, stock_list, clockDefined, lastSleep, stopSignal>>
    /\ UNCHANGED valueVars /\ UNCHANGED harnessVars
    /\ UNCHANGED mainVars

\* The market is closed: the waiting branch.  It reads pytz.timezone, a name
\* the script never imports, so the branch raises NameError before the
\* status message and before the wait.
WaitTimes == {0 - 60, 0, 1800, 3600, 7200}

RMarketClosed ==
    /\ program = "rsi" /\ rpc = "check"
    /\ "is_market_open" \in Methods
    /\ rMarket' = "closed"
    /\ IF "get_next_market_open" \in Methods /\ "pytz" \in ModuleNames
       THEN \E wait_time \in WaitTimes :
               LET sleep_time == Min(wait_time, MaxWait)
               IN  IF sleep_time < 0
                   THEN EnterBackoff
                   ELSE /\ rpc' = "waiting"
                        /\ lastSleep' = sleep_time
                        /\ consecErrors' = 0
       ELSE EnterBackoff
    /\ notices' = IF "get_next_market_open" \in Methods /\ "pytz" \in ModuleNames
                  THEN Append(notices, "status")
                  ELSE notices
    /\ UNCHANGED <<config, exitStatus>>
    /\ UNCHANGED <<program, stock_list, clockDefined, ri, results, roundLog, stopSignal>>
    /\ UNCHANGED valueVars /\ UNCHANGED harnessVars
    /\ UNCHANGED fetches

\* check_rsi_alert waits on the network twice, in stock.history and in
\* requests.post, and the stop signal can arrive in either wait: the call
\* is taken in steps.  First `self.check_rsi_alert(symbol, rsi_threshold)`
\* is entered and stock.history is called.
RCallCheck ==
    /\ program = "rsi" /\ rpc = "fetch" /\ ri <= Len(stock_list)
    /\ fetches' = Append(fetches, Asked(stock_list[ri]))
    /\ rpc' = "history"
    /\ UNCHANGED <<program, stock_list, clockDefined, ri, results, roundLog, lastSleep,
                   consecErrors, rMarket, stopSignal>>
    /\ UNCHANGED valueVars /\ UNCHANGED harnessVars
    /\ UNCHANGED mainVars

\* The feed agrees with what the evaluation of a symbol has seen so far
Consistent(feed, f) == Fetched(f.symbol, feed) = [f EXCEPT !.sends = <<>>]

\* stock.history answers (or raises).  A check that sends no alert runs to
\* its end, `results.append(result)` and `time.sleep(3)`; one that alerts
\* goes on to requests.post.
RHistoryReturns ==
    /\ program = "rsi" /\ rpc = "history"
    /\ \E feed \in RsiFeedsFor(stock_list) :
          LET data == get_stock_data(feed)
              alerts == /\ data # None /\ data.calc = "ok"
                        /\ alert_condition(data.rsi, RsiThreshold)
          IN  /\ fetches' = [fetches EXCEPT ![Len(fetches)] = Fetched(stock_list[ri], feed)]
              /\ IF alerts
                 THEN rpc' = "posting" /\ UNCHANGED <<results, lastSleep>>
                 ELSE /\ results' = Append(results,
                                        check_rsi_alert(stock_list[ri], RsiThreshold, feed))
                      /\ rpc' = "pause"
                      /\ lastSleep' = SymbolPause
    /\ UNCHANGED <<program, stock_list, clockDefined, ri, roundLog, consecErrors, rMarket, stopSignal>>
    /\ UNCHANGED valueVars /\ UNCHANGED harnessVars
    /\ UNCHANGED mainVars

\* requests.post: the alert reaches Telegram, or fails to
RAlertGoesOut ==
    /\ program = "rsi" /\ rpc = "posting"
    /\ \E feed \in RsiFeedsFor(stock_list) :
          /\ Consistent(feed, fetches[Len(fetches)])
          /\ fetches' = [fetches EXCEPT ![Len(fetches)].sends =
                            check_rsi_alert_sends(stock_list[ri], RsiThreshold, feed)]
    /\ rpc' = "posted"
    /\ UNCHANGED <<program, stock_list, clockDefined, ri, results, roundLog, lastSleep,
                   consecErrors, rMarket, stopSignal>>
    /\ UNCHANGED valueVars /\ UNCHANGED harnessVars
    /\ UNCHANGED mainVars

\* requests.post returns or raises, send_telegram_message returns, and
\* check_rsi_alert with it: `results.append(result)` and `time.sleep(3)`
RPostReturns ==
    /\ program = "rsi" /\ rpc = "posted"
    /\ \E feed \in RsiFeedsFor(stock_list) :
          /\ Consistent(feed, fetches[Len(fetches)])
          /\ fetches[Len(fetches)].sends =
                 check_rsi_alert_sends(stock_list[ri], RsiThreshold, feed)
          /\ results' = Append(results, check_rsi_alert(stock_list[ri], RsiThreshold, feed))
    /\ rpc' = "pause"
    /\ lastSleep' = SymbolPause
    /\ UNCHANGED <<program, stock_list, clockDefined, ri, roundLog, consecErrors, rMarket, stopSignal>>
    /\ UNCHANGED valueVars /\ UNCHANGED harnessVars
    /\ UNCHANGED fetches
    /\ UNCHANGED mainVars

\* time.sleep(3) returns; next symbol
RPause ==
    /\ program = "rsi" /\ rpc = "pause"
    /\ UNCHANGED lastSleep
    /\ ri' = ri + 1
    /\ rpc' = "fetch"
    /\ UNCHANGED <<program, stock_list, clockDefined, results, roundLog, consecErrors, rMarket, stopSignal>>
    /\ UNCHANGED valueVars /\ UNCHANGED harnessVars
    /\ UNCHANGED fetches
    /\ UNCHANGED mainVars

\* End of the round: the summary line
RSummary ==
    /\ program = "rsi" /\ rpc = "fetch" /\ ri > Len(stock_list)
    /\ roundLog' = round_summary(results, stock_list)
    /\ rpc' = "recheck"
    /\ UNCHANGED <<program, stock_list, clockDefined, ri, results, lastSleep, consecErrors, rMarket, stopSignal>>
    /\ UNCHANGED valueVars /\ UNCHANGED harnessVars
    /\ UNCHANGED fetches
    /\ UNCHANGED mainVars

RRecheck_always_sleeps ==
    /\ program = "rsi" /\ rpc = "recheck"
    /\ "is_market_open" \in Methods
    /\ \E still_open \in BOOLEAN :
          /\ rpc' = "sleep" /\ lastSleep' = CheckInterval
          /\ rMarket' = IF still_open THEN "open" ELSE "closed_after_round"
    /\ UNCHANGED <<program, stock_list, clockDefined, ri, results, roundLog, consecErrors, stopSignal>>
    /\ UNCHANGED valueVars /\ UNCHANGED harnessVars
    /\ UNCHANGED fetches
    /\ UNCHANGED mainVars

\* `if self.is_market_open(): time.sleep(check_interval)`, else straight back
\* to the top of the loop.  `results` keeps the round's records until
\* `results = []` of the next round.
RRecheck ==
    /\ program = "rsi" /\ rpc = "recheck"
    /\ "is_market_open" \in Methods
    /\ \E still_open \in BOOLEAN :
          IF still_open
          THEN rpc' = "sleep" /\ lastSleep' = CheckInterval /\ rMarket' = "open"
          ELSE rpc' = "check" /\ UNCHANGED lastSleep /\ rMarket' = "closed_after_round"
    /\ UNCHANGED <<program, stock_list, clockDefined, ri, results, roundLog, consecErrors, stopSignal>>
    /\ UNCHANGED valueVars /\ UNCHANGED harnessVars
    /\ UNCHANGED fetches
    /\ UNCHANGED mainVars

\* time.sleep(check_interval) or the wait for the open returns
RWake ==
    /\ program = "rsi" /\ rpc \in {"sleep", "waiting"}
    /\ rpc' = "check"
    /\ UNCHANGED lastSleep
    /\ UNCHANGED <<program, stock_list, clockDefined, ri, results, roundLog, consecErrors, rMarket, stopSignal>>
    /\ UNCHANGED valueVars /\ UNCHANGED harnessVars
    /\ UNCHANGED fetches
    /\ UNCHANGED mainVars

\* time.sleep(300) of the handler returns: the while loop goes round
RBackoffDone ==
    /\ program = "rsi" /\ rpc = "backoff"
    /\ rpc' = "check"
    /\ UNCHANGED lastSleep
    /\ UNCHANGED <<program, stock_list, clockDefined, ri, results, roundLog, consecErrors, rMarket, stopSignal>>
    /\ UNCHANGED valueVars /\ UNCHANGED harnessVars
    /\ UNCHANGED fetches
    /\ UNCHANGED mainVars

\* Positions outside the try block of monitor_stocks: the start message of
\* main(), the banner before the loop, the sleep of the generic handler.
OutsideTry == {"start", "banner", "backoff"}

RKeyboardInterrupt_continues ==
    /\ program = "rsi"
    /\ rpc \in {"start", "banner", "check", "fetch", "history", "posting", "posted",
               "pause", "recheck", "sleep", "waiting", "backoff"}
    /\ rpc' = IF rpc \in OutsideTry THEN "interrupted" ELSE "check"
    /\ exitStatus' = exitStatus
    /\ stopSignal' = TRUE
    /\ UNCHANGED lastSleep
    /\ UNCHANGED <<program, stock_list, clockDefined, ri, results, roundLog, consecErrors, rMarket>>
    /\ UNCHANGED valueVars /\ UNCHANGED harnessVars
    /\ UNCHANGED fetches
    /\ UNCHANGED <<config, notices>>

\* The stop signal.  Inside the try block it is caught and the loop breaks;
\* before the loop and during the sleep of the generic handler it is
\* outside the try block and leaves monitor_stocks as an exception that
\* main() does not catch either.
\* After the break monitor_stocks and main() return; the uncaught signal
\* ends the process with the status of a process killed by SIGINT.
RKeyboardInterrupt ==
    /\ program = "rsi"
    /\ rpc \in {"start", "banner", "check", "fetch", "history", "posting", "posted",
               "pause", "recheck", "sleep", "waiting", "backoff"}
    /\ rpc' = IF rpc \in OutsideTry THEN "interrupted" ELSE "stopped"
    /\ exitStatus' = IF rpc \in OutsideTry THEN KilledBySigint ELSE 0
    /\ stopSignal' = TRUE
    /\ UNCHANGED lastSleep
    /\ UNCHANGED <<program, stock_list, clockDefined, ri, results, roundLog, consecErrors, rMarket>>
    /\ UNCHANGED valueVars /\ UNCHANGED harnessVars
    /\ UNCHANGED fetches
    /\ UNCHANGED <<config, notices>>

NextRsi ==
    \/ RStartMessage \/ RBanner
    \/ RMarketCheckRaises \/ RMarketOpen \/ RMarketClosed \/ RCallCheck
    \/ RHistoryReturns \/ RAlertGoesOut \/ RPostReturns
    \/ RPause \/ RSummary \/ RRecheck \/ RWake \/ RBackoffDone \/ RKeyboardInterrupt

(***************************************************************************)
(* The two scripts                                                         *)
(***************************************************************************)
Init == InitValue \/ InitRsi

Next == NextValue \/ NextRsi

Spec == Init /\ [][Next]_vars

(***************************************************************************)
(* Unit harness: is_market_hours on every minute of the week               *)
(***************************************************************************)
InitClock ==
    /\ program = "is_market_hours"
    /\ stock_list = <<>>
    /\ arg \in ClockReads
    /\ ret = None
    /\ hpc = "call"
    /\ fetches = <<>>
    /\ IdleValue /\ IdleRsi /\ IdleMain

HClock ==
    /\ program = "is_market_hours" /\ hpc = "call"
    /\ ret' = [value |-> is_market_hours(arg)]
    /\ hpc' = "returned"
    /\ UNCHANGED <<program, stock_list, arg, clockDefined>>
    /\ UNCHANGED valueVars /\ UNCHANGED rsiVars
    /\ UNCHANGED fetches
    /\ UNCHANGED mainVars

SpecClock == InitClock /\ [][HClock]_vars

(***************************************************************************)
(* Unit harness: classify_opportunity on every analysis of the grid, then  *)
(* send_opportunity_alert on the opportunity it returned                   *)
(***************************************************************************)
\* A histogram by its sign
HistValues == {NaN, 0 - 1, 0, 1}

AnalysisGrid ==
    { [symbol             |-> 1,
       company_name       |-> name,
       market_cap         |-> CapFloor,
       rsi                |-> rsi,
       macd               |-> [macd |-> 0, signal |-> 0, histogram |-> h, crossover |-> c],
       support_resistance |-> [distance_from_low |-> 0, near_support |-> ns],
       performance        |-> [p1m |-> 0, p3m |-> perf],
       success            |-> TRUE] :
        name \in {Text("longName"), None},
        rsi \in RsiValues, h \in HistValues, c \in BOOLEAN,
        perf \in PerfValues, ns \in BOOLEAN }

ClassifyArgs == AnalysisGrid \cup {None, Failure(1, "history")}

InitClassify ==
    /\ program = "classify_opportunity"
    /\ stock_list = <<>>
    /\ arg \in ClassifyArgs
    /\ ret = None
    /\ hpc = "call"
    /\ fetches = <<>>
    /\ IdleValue /\ IdleRsi /\ IdleMain

HClassify ==
    /\ program = "classify_opportunity" /\ hpc = "call"
    /\ ret' = [value |-> classify_opportunity(arg)]
    /\ hpc' = "returned"
    /\ UNCHANGED <<program, stock_list, arg, clockDefined>>
    /\ UNCHANGED valueVars /\ UNCHANGED rsiVars
    /\ UNCHANGED fetches
    /\ UNCHANGED mainVars

HAlert ==
    /\ program = "classify_opportunity" /\ hpc = "returned"
    /\ ret.value # None
    /\ \E delivered \in BOOLEAN :
          LET sent == send_opportunity_alert(
                          <<[analysis |-> arg, opportunity |-> ret.value]>>, delivered)
          IN  IF sent = TypeError
              THEN notified' = notified /\ hpc' = "raised"
              ELSE notified' = Append(notified, sent) /\ hpc' = "alerted"
    /\ UNCHANGED <<program, stock_list, arg, ret, clockDefined>>
    /\ UNCHANGED <<vpc, market, clockFailed, vi, analyses, opportunities, summary>>
    /\ UNCHANGED rsiVars
    /\ UNCHANGED fetches
    /\ UNCHANGED mainVars

NextClassify == HClassify \/ HAlert

SpecClassify == InitClassify /\ [][NextClassify]_vars

(***************************************************************************)
(* Unit harness: the indicators computed from a series of closes.          *)
(* check_rsi_alert (RSI monitor) and get_stock_analysis (value monitor)    *)
(* are run on a series; calculate_rsi and the performance lookback are     *)
(* computed from it bar by bar.  Prices are integers.                      *)
(***************************************************************************)
Period == 14

RECURSIVE Sum(_, _, _)
Sum(seq, from, to) == IF from > to THEN 0 ELSE seq[from] + Sum(seq, from + 1, to)

\* prices.diff(): NaN at the first bar
diff(prices) ==
    [k \in 1..Len(prices) |-> IF k = 1 THEN NaN ELSE prices[k] - prices[k - 1]]

\* delta.where(delta > 0, 0) and -delta.where(delta < 0, 0): a NaN delta
\* fails the condition and becomes 0
gains(delta) == [k \in 1..Len(delta) |-> IF FGt(delta[k], 0) THEN delta[k] ELSE 0]
losses(delta) == [k \in 1..Len(delta) |-> IF FLt(delta[k], 0) THEN 0 - delta[k] ELSE 0]

\* series.rolling(window).mean() at the latest bar, times window: NaN until
\* the window is full
rolling_sum_last(series, window) ==
    IF Len(series) < window THEN NaN
    ELSE Sum(series, Len(series) - window + 1, Len(series))

\* 100 - (100 / (1 + (gain / 14) / (loss / 14))) is taken in doubles, as the
\* code takes it.  Where the quotient 100 * gain / (gain + loss) is a whole
\* number of thousandths the double may miss it by a rounding error: these
\* are the sums of gains and of losses over a window of 14 deltas on which
\* it falls below (8 against 12 gives 39.99999999999999, not 40) and above
\* (5 against 3 gives 62.50000000000001).  Sums up to 28, the widest a
\* window of the series below reaches.
RoundedBelow ==
    { <<2, 3>>, <<3, 22>>, <<4, 6>>, <<6, 9>>, <<8, 12>>, <<11, 14>>, <<12, 13>>,
      <<12, 18>>, <<14, 11>>, <<14, 21>>, <<16, 24>>, <<22, 28>>, <<24, 26>>,
      <<28, 22>> }

RoundedAbove ==
    { <<5, 3>>, <<5, 15>>, <<9, 11>>, <<9, 27>>, <<10, 6>>, <<18, 22>>, <<20, 12>>,
      <<25, 15>> }

\* calculate_rsi, by its place among the thousandths; on these sums the
\* product with 100 keeps that place.  rs = gain / loss is a float
\* division: x / 0 is inf for x > 0 and NaN for x = 0, and
\* 100 - 100 / (1 + inf) is 100.
calculate_rsi(prices, period) ==
    LET delta == diff(prices)
        gain  == rolling_sum_last(gains(delta), period)
        loss  == rolling_sum_last(losses(delta), period)
        k     == (100000 * gain) \div (gain + loss)
    IN  IF gain = NaN \/ loss = NaN THEN NaN
        ELSE IF loss = 0 THEN (IF gain = 0 THEN NaN ELSE Plain(Thousandths(100)))
        ELSE IF (100000 * gain) % (gain + loss) # 0 THEN Plain(Between(k))
        ELSE IF <<gain, loss>> \in RoundedBelow THEN Plain(Between(k - 1))
        ELSE IF <<gain, loss>> \in RoundedAbove THEN Plain(Between(k))
        ELSE Plain(Exactly(k))

\* The value monitor's feeds keep the RSI in tenths rounded down
InTenths(x) == IF x = NaN THEN NaN ELSE (PlaceOf(x) \div 2) \div 100

\* series.iloc[-n]: the n-th bar counted from the end, the latest being the
\* first; IndexError when the series has fewer than n bars
IndexError == 0 - 3
iloc_from_end(series, n) ==
    IF n > Len(series) THEN IndexError ELSE series[Len(series) - n + 1]

\* ((current_price - close.iloc[-n]) / close.iloc[-n]) * 100, in tenths
\* rounded down
performance(closes, n) ==
    LET current_price == iloc_from_end(closes, 1)
        past          == iloc_from_end(closes, n)
    IN  IF past = IndexError THEN IndexError
        ELSE (Tenths(100) * (current_price - past)) \div past

\* Series of closes handed to the harness: every series of at most ShortBars
\* bars over two price levels, and the falling, flat and rising ramps of at
\* most LongBars bars, with those that turn round at one of TurnBars.
ShortBars == 15
LongBars == 66
PriceLevels == {100, 101}
RampSlopes == {0 - 1, 0, 1}
TurnBars == {45, 55, 58, 60, 61, 62}

ShortSeries == UNION { [1..n -> PriceLevels] : n \in 1..ShortBars }
Ramp(n, slope) == [k \in 1..n |-> 200 + slope * k]
Vee(n, turn) ==
    [k \in 1..n |-> IF k <= turn THEN 200 - k ELSE 200 - turn + 2 * (k - turn)]
Peak(n, turn) ==
    [k \in 1..n |-> IF k <= turn THEN 200 + k ELSE 200 + turn - 2 * (k - turn)]
LongSeries ==
    { Ramp(n, slope) : n \in 1..LongBars, slope \in RampSlopes }
    \cup { Vee(n, turn) : n \in 1..LongBars, turn \in TurnBars }
    \cup { Peak(n, turn) : n \in 1..LongBars, turn \in TurnBars }

\* What get_stock_data hands back for the series, with the RSI reached on it
SeriesRsiFeed(closes) ==
    RsiFeed("ok", Len(closes), "ok", calculate_rsi(closes, Period), "200")

\* What get_stock_analysis is handed: the closes, and with them the latest
\* values the two EMA lines of calculate_macd and the distance from the
\* recent low reach, whose arithmetic is left to the feed.
SeriesInputs ==
    [closes : LongSeries, macd : MacdPairs, distance_from_low : {Tenths(2), Tenths(20)}]

\* What yfinance hands back to get_stock_analysis for the series
SeriesFeed(input) ==
    [Feed("ok", Len(input.closes), CapFloor, InTenths(calculate_rsi(input.closes, Period)),
          input.macd[1], input.macd[2],
          performance(input.closes, Lookback3m), input.distance_from_low)
       EXCEPT !.perf_1m = performance(input.closes, Lookback1m)]

\* The closes handed to the function under test
Closes == IF program = "get_stock_analysis" THEN arg.closes ELSE arg

InitIndicators ==
    /\ \/ program = "check_rsi_alert" /\ arg \in ShortSeries \cup LongSeries
       \/ program = "get_stock_analysis" /\ arg \in SeriesInputs
    /\ stock_list = <<>>
    /\ ret = None
    /\ hpc = "call"
    /\ fetches = <<>>
    /\ IdleValue /\ IdleRsi /\ IdleMain

HCheckRsiAlert ==
    /\ program = "check_rsi_alert" /\ hpc = "call"
    /\ ret' = [value |-> check_rsi_alert(1, RsiThreshold, SeriesRsiFeed(arg))]
    /\ hpc' = "returned"
    /\ UNCHANGED <<program, stock_list, arg, clockDefined>>
    /\ UNCHANGED valueVars /\ UNCHANGED rsiVars
    /\ UNCHANGED fetches
    /\ UNCHANGED mainVars

HGetStockAnalysis ==
    /\ program = "get_stock_analysis" /\ hpc = "call"
    /\ ret' = [value |-> get_stock_analysis(1, SeriesFeed(arg))]
    /\ hpc' = "returned"
    /\ UNCHANGED <<program, stock_list, arg, clockDefined>>
    /\ UNCHANGED valueVars /\ UNCHANGED rsiVars
    /\ UNCHANGED fetches
    /\ UNCHANGED mainVars

NextIndicators == HCheckRsiAlert \/ HGetStockAnalysis

SpecIndicators == InitIndicators /\ [][NextIndicators]_vars

(***************************************************************************)
(* Properties                                                              *)
(***************************************************************************)
InOrder(seq) ==
    /\ Len(seq) <= Len(stock_list)
    /\ \A k \in 1..Len(seq) : seq[k].symbol = stock_list[k]

\* A symbol fails in the RSI monitor when its fetch raises, its series is
\* empty, or the indicator computation raises.
RsiFetchFails(f) == f.history = "raise" \/ f.bars = 0 \/ f.calc = "raise"

\* In the value monitor: the fetch raises, the capitalisation is a null, or
\* the indicators are computed on a series too short for them.
ValueFetchRaises(f) ==
    \/ f.history = "raise"
    \/ (f.bars > 0 /\ f.market_cap = Null)
    \/ (f.bars > 0 /\ f.market_cap >= CapFloor /\ f.bars < Lookback3m)
ValueFetchEmpty(f) == f.history # "raise" /\ f.bars = 0

NumFailingRsi == Cardinality({k \in 1..Len(fetches) : RsiFetchFails(fetches[k])})

RsiRoundDone == program = "rsi" /\ rpc = "recheck"
ValueCycleDone == program = "value" /\ market = "open" /\ vpc \in {"log", "done"}

\* The symbols check_rsi_alert has been called on and has returned for
Checked == 1..Len(results)

\* check_rsi_alert has been called on a symbol and has not returned
InCheck == Len(fetches) = Len(results) + 1

C1_RsiIsolation ==
    /\ program = "rsi" =>
          /\ InOrder(fetches)
          /\ Len(results) = Len(fetches) \/ InCheck
          /\ rpc \in {"history", "posting", "posted"} => InCheck
          /\ InCheck => rpc \in {"history", "posting", "posted", "stopped"}
          /\ \A k \in Checked :
                /\ results[k].symbol = stock_list[k]
                /\ results[k].success = ~RsiFetchFails(fetches[k])
    /\ RsiRoundDone =>
          /\ Len(results) = Len(stock_list)
          /\ roundLog.total = Len(stock_list)
          /\ roundLog.successful = Len(stock_list) - NumFailingRsi

C1_ValueEvaluatedOnce ==
    /\ program = "value" => InOrder(fetches) /\ Len(analyses) = Len(fetches)
    /\ ValueCycleDone => Len(analyses) = Len(stock_list)

\* C1 as claimed: per-symbol failure isolation with every failing symbol,
\* in both monitors, yielding a result with success = false.
C1_AsClaimed ==
    /\ C1_RsiIsolation
    /\ C1_ValueEvaluatedOnce
    /\ program = "value" =>
          \A k \in 1..Len(analyses) :
             (ValueFetchRaises(fetches[k]) \/ ValueFetchEmpty(fetches[k]))
                => (analyses[k] # None /\ ~analyses[k].success)

(***************************************************************************)
(* Classifier: the bands as the specification states them                  *)
(***************************************************************************)
B(cond, delta) == IF cond THEN delta ELSE 0

FGe(a, b) == a # NaN /\ b # NaN /\ a >= b

RsiDelta(a) ==
    B(FLt(a.rsi, 250), 3)
  + B(FGe(a.rsi, 250) /\ FLt(a.rsi, 300), 2)
  + B(FGe(a.rsi, 300) /\ FLt(a.rsi, 400), 1)

MacdDelta(a) ==
    B(a.macd.crossover /\ FGt(a.macd.histogram, 0), 2)
  + B(a.macd.crossover /\ ~FGt(a.macd.histogram, 0), 1)

PerfDelta(a) ==
    B(FLt(a.performance.p3m, -200), 2)
  + B(FGe(a.performance.p3m, -200) /\ FLt(a.performance.p3m, -100), 1)

SupportDelta(a) == B(a.support_resistance.near_support, 1)

BandScore(a) == RsiDelta(a) + MacdDelta(a) + PerfDelta(a) + SupportDelta(a)

ScoreOf(opportunity) == IF opportunity = None THEN 0 ELSE opportunity.score

Classified == program = "classify_opportunity" /\ hpc # "call" /\ arg # None /\ arg.success

\* C2: for every successful analysis the score is the sum of one band per
\* group (RSI 3/2/1/0, MACD 2/1/0, performance 2/1/0, support 1/0), lies in
\* 0..8, and a lower RSI with the other inputs fixed never gives a lower score.
C2_ScoreIsBandSum ==
    Classified =>
       /\ ScoreOf(ret.value) = BandScore(arg)
       /\ ScoreOf(ret.value) \in 0..8
       /\ ret.value # None => ret.value.score >= 1
       /\ \A lower \in RsiValues :
             FLt(lower, arg.rsi) =>
                ScoreOf(classify_opportunity([arg EXCEPT !.rsi = lower])) >= ScoreOf(ret.value)

\* An RSI under 25 with every other group contributing: 3 + 1 + 2 + 1, and
\* the MACD "turning bullish" band (crossover without a positive histogram).
C2_Witness ==
    /\ Classified
    /\ arg.rsi = 249
    /\ arg.macd.crossover /\ arg.macd.histogram = 0
    /\ arg.performance.p3m = -201
    /\ arg.support_resistance.near_support
    /\ ScoreOf(ret.value) = 7

TierOf(score) ==
    IF score >= 5 THEN "EXCELENTE"
    ELSE IF score >= 3 THEN "BUENA"
    ELSE IF score >= 1 THEN "MODERADA"
    ELSE "NONE"

OpportunitiesOf(symbol) ==
    {j \in 1..Len(opportunities) : opportunities[j].analysis.symbol = symbol}

Successful(a) == a # None /\ a.success

\* C3: the tier is EXCELENTE iff score >= 5, BUENA iff 3 <= score <= 4,
\* MODERADA iff 1 <= score <= 2, and there is no opportunity iff score = 0;
\* a symbol scoring 0 is never in the opportunities list of run_analysis nor
\* in a notification.
C3_TierByScore ==
    program = "value" =>
       /\ \A k \in 1..Len(analyses) :
             Successful(analyses[k]) =>
                LET score == BandScore(analyses[k])
                    found == OpportunitiesOf(stock_list[k])
                IN  /\ (score = 0) <=> (found = {})
                    /\ Cardinality(found) <= 1
                    /\ \A j \in found :
                          /\ opportunities[j].opportunity.score = score
                          /\ opportunities[j].opportunity.level = TierOf(score)
                          /\ (opportunities[j].opportunity.level = "EXCELENTE") <=> (score >= 5)
                          /\ (opportunities[j].opportunity.level = "BUENA") <=> (score \in 3..4)
                          /\ (opportunities[j].opportunity.level = "MODERADA") <=> (score \in 1..2)
       /\ \A m \in 1..Len(notified) : \A e \in 1..Len(notified[m].entries) :
             LET entry == notified[m].entries[e]
             IN  /\ entry.score >= 1
                 /\ entry.level = TierOf(entry.score)
                 /\ Successful(analyses[entry.symbol])
                 /\ BandScore(analyses[entry.symbol]) = entry.score

\* A cycle that met a score of exactly 5 (EXCELENTE), a score of 2
\* (MODERADA) and a score of 0, and notified without the score-0 symbol.
C3_Witness ==
    /\ program = "value" /\ vpc = "done" /\ Len(notified) = 1
    /\ \E k \in 1..Len(analyses) : Successful(analyses[k]) /\ BandScore(analyses[k]) = 0
    /\ \E j \in 1..Len(opportunities) : opportunities[j].opportunity.score = 2
    /\ \E j \in 1..Len(opportunities) :
          /\ opportunities[j].opportunity.score = 5
          /\ opportunities[j].opportunity.level = "EXCELENTE"

(***************************************************************************)
(* Reasons                                                                 *)
(***************************************************************************)
ReasonGroup(text) ==
    IF text \in {"RSI extremadamente bajo", "RSI en sobreventa", "RSI moderadamente bajo"} THEN 1
    ELSE IF text \in {"MACD cruzando alcista", "MACD iniciando giro alcista"} THEN 2
    ELSE IF text \in {"Caida significativa 3M", "Correccion moderada 3M"} THEN 3
    ELSE IF text = "Cerca de nivel de soporte" THEN 4
    ELSE 0

ContributingGroups(a) ==
    {g \in 1..4 : \/ (g = 1 /\ RsiDelta(a) > 0)
                  \/ (g = 2 /\ MacdDelta(a) > 0)
                  \/ (g = 3 /\ PerfDelta(a) > 0)
                  \/ (g = 4 /\ SupportDelta(a) > 0)}

EndToEnd(a) ==
    /\ a.rsi = 225
    /\ a.macd.crossover /\ a.macd.histogram = 1
    /\ a.performance.p3m = -250
    /\ a.support_resistance.near_support

\* C4: the reasons hold exactly one entry per check group that contributed,
\* in the order RSI, MACD, 3-month performance, support (RSI 22.5, confirmed
\* MACD cross, -25% and near support: score 8, EXCELENTE, four reasons in
\* that order); send_opportunity_alert surfaces the first two of them.
C4_ReasonsInOrder ==
    (Classified /\ ret.value # None) =>
       LET reasons == ret.value.reasons
       IN  /\ {ReasonGroup(reasons[k]) : k \in 1..Len(reasons)} = ContributingGroups(arg)
           /\ \A k \in 1..Len(reasons), l \in 1..Len(reasons) :
                 k < l => ReasonGroup(reasons[k]) < ReasonGroup(reasons[l])
           /\ EndToEnd(arg) =>
                 /\ ret.value.score = 8
                 /\ ret.value.level = "EXCELENTE"
                 /\ reasons = <<"RSI extremadamente bajo", "MACD cruzando alcista",
                                "Caida significativa 3M", "Cerca de nivel de soporte">>
           /\ hpc = "alerted" =>
                 /\ Len(notified) = 1
                 /\ Len(notified[1].entries) = 1
                 /\ LET shown == notified[1].entries[1].reasons
                    IN  /\ Len(shown) = Min(2, Len(reasons))
                        /\ \A k \in 1..Len(shown) : shown[k] = reasons[k]

\* The end-to-end scenario, alerted: four reasons, two surfaced.
C4_Witness ==
    /\ Classified /\ hpc = "alerted"
    /\ EndToEnd(arg)
    /\ Len(ret.value.reasons) = 4
    /\ notified[1].entries[1].reasons = <<"RSI extremadamente bajo", "MACD cruzando alcista">>

(***************************************************************************)
(* Ranking and notification of run_analysis                                *)
(***************************************************************************)
\* The symbols whose analysis is an opportunity, whatever list holds them.
Discovered == {k \in 1..Len(analyses) : Successful(analyses[k]) /\ BandScore(analyses[k]) >= 1}

Reported == notified[1].entries

ReportedSymbols == {Reported[e].symbol : e \in 1..Len(Reported)}

ValueReported == program = "value" /\ notified # <<>>

\* C5: the notification carries the first min(5, k) of the k opportunities
\* ordered by score descending, equal scores in watch-list order; no
\* opportunity left out has a higher score than one reported.
C5_Ranking ==
    ValueReported =>
       /\ Len(Reported) = Min(TopN, Cardinality(Discovered))
       /\ ReportedSymbols \subseteq Discovered
       /\ \A e \in 1..Len(Reported) : Reported[e].score = BandScore(analyses[Reported[e].symbol])
       /\ \A e \in 1..Len(Reported), f \in 1..Len(Reported) :
             e < f => \/ Reported[e].score > Reported[f].score
                      \/ /\ Reported[e].score = Reported[f].score
                         /\ Reported[e].symbol < Reported[f].symbol
       /\ \A k \in Discovered \ ReportedSymbols : \A e \in 1..Len(Reported) :
             \/ BandScore(analyses[k]) < Reported[e].score
             \/ /\ BandScore(analyses[k]) = Reported[e].score
                /\ k > Reported[e].symbol

\* Six opportunities, the later ones scoring higher, with ties on both
\* sides of the cut: five reported, a score-2 symbol left out.
C5_Witness ==
    /\ ValueReported /\ vpc = "done"
    /\ Cardinality(Discovered) = 6
    /\ Len(Reported) = 5
    /\ BandScore(analyses[1]) = 2 /\ BandScore(analyses[2]) = 2 /\ BandScore(analyses[3]) = 2
    /\ BandScore(analyses[4]) = 5 /\ BandScore(analyses[5]) = 2 /\ BandScore(analyses[6]) = 5
    /\ Reported[1].symbol = 4 /\ Reported[2].symbol = 6 /\ Reported[3].symbol = 1
    /\ Reported[5].symbol = 3

\* C6: in a cycle that starts with the market open the notification is
\* invoked at most once, only after the whole watch-list was evaluated, and
\* iff an opportunity was found; the cycle summary is logged at the end
\* whether or not there was an opportunity or the send succeeded.  A cycle
\* ends when run_analysis is left, by its last statement or by an error.
C6_AsClaimed ==
    program = "value" =>
       /\ Len(notified) <= 1
       /\ Len(summary) <= 1
       /\ notified # <<>> => (market = "open" /\ Len(analyses) = Len(stock_list))
       /\ summary # <<>> => (vpc = "done" /\ Len(analyses) = Len(stock_list))
       /\ (market = "open" /\ vpc \in {"log", "done", "raised"}) =>
              ((notified # <<>>) <=> (Discovered # {}))
       /\ (market = "open" /\ vpc \in {"done", "raised"}) =>
              summary = <<Cardinality(Discovered)>>

\* C8: a failing clock read makes is_market_hours answer true, and
\* run_analysis then evaluates the whole watch-list.
C8_ClockFailsOpen ==
    (program = "value" /\ clockFailed) =>
       /\ market = "open"
       /\ vpc # "start"
       /\ vpc = "done" => (Len(analyses) = Len(stock_list) /\ Len(summary) = 1)

C8_Witness ==
    /\ program = "value" /\ clockFailed /\ vpc = "done"
    /\ Len(stock_list) = 3 /\ Len(fetches) = 3

(***************************************************************************)
(* Market clock                                                            *)
(***************************************************************************)
MinuteOfDay(t) == t.hour * 60 + t.minute

ClockAnswered == program = "is_market_hours" /\ hpc = "returned" /\ arg.ok

\* C7: is_market_hours is false on Saturday (5) and Sunday (6) at any hour,
\* and from Monday to Friday true exactly when the local (hour, minute) lies
\* in 09:00..16:30 inclusive; Saturday 10:00 is closed, Monday 10:00 open.
C7_MarketHours ==
    ClockAnswered =>
       /\ arg.weekday \in {5, 6} => ~ret.value
       /\ arg.weekday \in 0..4 =>
             (ret.value <=> (9 * 60 <= MinuteOfDay(arg) /\ MinuteOfDay(arg) <= 16 * 60 + 30))
       /\ (arg.weekday = 5 /\ arg.hour = 10 /\ arg.minute = 0) => ~ret.value
       /\ (arg.weekday = 0 /\ arg.hour = 10 /\ arg.minute = 0) => ret.value

\* Friday 16:30, the last open minute of the week.
C7_Witness ==
    /\ ClockAnswered
    /\ arg.weekday = 4 /\ arg.hour = 16 /\ arg.minute = 30
    /\ ret.value

(***************************************************************************)
(* The clock gates the evaluation                                          *)
(***************************************************************************)
C9_Gated ==
    /\ program = "value" =>
          /\ fetches # <<>> => market = "open"
          /\ vpc = "loop" => market = "open"
          /\ market = "closed" =>
                /\ vpc = "done"
                /\ fetches = <<>> /\ analyses = <<>> /\ opportunities = <<>>
                /\ notified = <<>> /\ summary = <<>>
    /\ program = "rsi" =>
          /\ rpc \in {"fetch", "history", "posting", "posted", "pause", "recheck"}
                => rMarket = "open"
          /\ (rMarket \in {"closed", "raised", "unchecked"} /\ ~stopSignal)
                => rpc \in {"start", "banner", "check", "backoff", "waiting"}
          /\ rpc \in {"start", "banner"} => rMarket = "unchecked"
          /\ ~clockDefined => (fetches = <<>> /\ results = <<>>)

C9_FetchOnlyWhenOpen ==
    [][ (fetches' # fetches /\ fetches' # <<>>)
           => (IF program = "value" THEN market = "open" ELSE rMarket = "open") ]_vars

\* C9: no fetch is started in a cycle unless the market check at the start
\* of that cycle reported open.  On a closed market run_analysis returns with
\* no fetch and no notification, and monitor_stocks leaves the market check
\* without calling check_rsi_alert.
C9_ClockGates == []C9_Gated /\ C9_FetchOnlyWhenOpen

\* run_analysis met a closed market and returned empty-handed.
C9_Witness ==
    /\ program = "value" /\ market = "closed" /\ vpc = "done"
    /\ Len(stock_list) = 2 /\ fetches = <<>> /\ notified = <<>>

(***************************************************************************)
(* Error backoff of monitor_stocks                                         *)
(***************************************************************************)
RsiTerminal == rpc \in {"stopped", "interrupted"}

C10_BackoffState ==
    program = "rsi" =>
       /\ rpc = "backoff" => (lastSleep = 300 /\ consecErrors >= 1)
       /\ RsiTerminal => stopSignal
       /\ (rMarket = "raised" /\ ~stopSignal) => rpc \in {"backoff", "check"}

C10_BackoffStep ==
    [][ program = "rsi" =>
          /\ (rpc = "check" /\ ~clockDefined /\ ~stopSignal')
                => (rpc' = "backoff" /\ lastSleep' = 300)
          /\ (rpc = "backoff" /\ ~stopSignal') => rpc' = "check"
          /\ (RsiTerminal' /\ ~RsiTerminal) => (stopSignal' /\ ~stopSignal) ]_vars

\* C10: an unexpected error in the loop body is caught at the loop boundary,
\* followed by a 300-second wait and then by a new iteration at the market
\* check; monitor_stocks ends only on the stop signal, however many errors
\* follow one another.
C10_ErrorBackoff == []C10_BackoffState /\ C10_BackoffStep

\* Back at the market check after MaxErrors errors in a row.
C10_Witness ==
    /\ program = "rsi" /\ rpc = "check" /\ ~stopSignal
    /\ consecErrors = MaxErrors /\ lastSleep = 300

(***************************************************************************)
(* Cancellation of monitor_stocks                                          *)
(***************************************************************************)
RsiRunning == program = "rsi" /\ ~RsiTerminal

C11_Deliverable == RsiRunning => ENABLED RKeyboardInterrupt

C11_StopStep ==
    [][ /\ (stopSignal' /\ ~stopSignal) =>
              /\ RsiTerminal'
              /\ fetches' = fetches /\ results' = results /\ ri' = ri
              /\ roundLog' = roundLog /\ notices' = notices
              /\ lastSleep' = lastSleep
        /\ ~stopSignal ]_vars

\* C11: the stop signal can arrive at every position of monitor_stocks (the
\* market check, a symbol's evaluation, the pause between symbols, the end
\* of the round, the sleep between rounds, the wait for the open, the
\* 300-second backoff); the step that takes it leads straight to a terminal
\* position without evaluating a symbol, sending a notification, logging a
\* summary or sleeping, and nothing happens after it.
C11_Cancellation == []C11_Deliverable /\ C11_StopStep

\* Stopped in the middle of a round while requests.post waits for the
\* answer to a delivered alert: the symbol is left without a result.
C11_Witness ==
    /\ program = "rsi" /\ rpc = "stopped" /\ stopSignal
    /\ Len(fetches) = 2 /\ Len(stock_list) = 3 /\ Len(results) = 1
    /\ fetches[2].sends = <<TRUE>>

(***************************************************************************)
(* Indicators on short and on loss-free series                             *)
(***************************************************************************)
Returned(function) == program = function /\ hpc = "returned"

\* C12: a series of fewer than period + 1 = 15 bars is never reported as a
\* successful evaluation, neither by check_rsi_alert nor by
\* get_stock_analysis.
C12_AsClaimed ==
    ((Returned("check_rsi_alert") \/ Returned("get_stock_analysis"))
        /\ Len(Closes) < Period + 1)
    => ~ret.value.success

\* No close of the trailing window of `period` deltas is below the close
\* before it.
NoLossInWindow(closes, period) ==
    \A k \in (Len(closes) - period + 1)..Len(closes) : closes[k] >= closes[k - 1]

\* C15: on a series of at least period + 1 bars whose trailing window holds
\* no negative delta, flat series included, the RSI is 100.
C15_AsClaimed ==
    (Returned("check_rsi_alert") /\ Len(arg) >= Period + 1
        /\ NoLossInWindow(arg, Period))
    => ret.value.rsi = Hundredths(100)

(***************************************************************************)
(* Market-cap filter of the value monitor                                  *)
(***************************************************************************)
CapOf(f) == IF f.market_cap = Missing THEN 0 ELSE f.market_cap

HasSeries(f) == f.history = "ok" /\ f.bars > 0

NotifiedSymbols ==
    UNION { {notified[m].entries[e].symbol : e \in 1..Len(notified[m].entries)} :
            m \in 1..Len(notified) }

\* C13: a symbol whose capitalisation is below 10,000,000,000 (a missing
\* capitalisation counts as 0) gets no analysis: it is never classified,
\* never in the opportunities list, never in a notification.  A symbol at or
\* above the floor passes the filter: its indicators are computed, and it is
\* an opportunity exactly when its score is at least 1.
C13_CapFilter ==
    program = "value" =>
       \A k \in 1..Len(analyses) :
          (HasSeries(fetches[k]) /\ fetches[k].market_cap # Null) =>
             IF CapOf(fetches[k]) < CapFloor
             THEN /\ analyses[k] = None
                  /\ OpportunitiesOf(fetches[k].symbol) = {}
                  /\ fetches[k].symbol \notin NotifiedSymbols
             ELSE /\ analyses[k] # None
                  /\ fetches[k].bars >= Lookback3m =>
                        /\ analyses[k].success
                        /\ analyses[k].market_cap = fetches[k].market_cap
                        /\ (OpportunitiesOf(fetches[k].symbol) # {})
                              <=> (BandScore(analyses[k]) >= 1)

\* A company just below the floor whose indicators would have scored 8,
\* between two companies that made it into the notification.
C13_Witness ==
    /\ program = "value" /\ vpc = "done" /\ Len(fetches) = 3
    /\ fetches[2].market_cap = CapFloor - 1 /\ HasSeries(fetches[2])
    /\ analyses[2] = None
    /\ notified # <<>> /\ NotifiedSymbols = {1, 3}

(***************************************************************************)
(* Startup with a missing bot token or chat id                             *)
(***************************************************************************)
StartupFailed == program = "value" /\ ~ConfigComplete(config) /\ vpc # "main"

\* C14: when the bot token or the chat id is missing, main() attempts exactly
\* one diagnostic notification, exits with a non-zero status and starts no
\* evaluation cycle.
C14_AsClaimed ==
    StartupFailed =>
       /\ Len(notices) = 1
       /\ exitStatus # Running /\ exitStatus # 0
       /\ market = "unchecked" /\ fetches = <<>>

(***************************************************************************)
(* The closed market in monitor_stocks                                     *)
(***************************************************************************)
\* C16: when the market check reports closed, the loop waits
\* min(time-to-open, 3600) seconds, for every time-to-open, and raises
\* nothing; then it checks the clock again.
C16_AsClaimed ==
    [][ (program = "rsi" /\ rpc = "check" /\ rMarket' = "closed")
           => (rpc' = "waiting" /\ lastSleep' >= 0 /\ lastSleep' <= MaxWait
               /\ consecErrors' = consecErrors) ]_vars

C17_AfterRound ==
    (program = "rsi" /\ rMarket = "closed_after_round" /\ ~stopSignal)
       => (rpc = "check" /\ Len(results) = Len(stock_list)
           /\ lastSleep # CheckInterval)

C17_Steps ==
    [][ (program = "rsi" /\ ~stopSignal') =>
          /\ rpc = "recheck" =>
                IF rMarket' = "open"
                THEN rpc' = "sleep" /\ lastSleep' = CheckInterval
                ELSE /\ rMarket' = "closed_after_round"
                     /\ rpc' = "check" /\ lastSleep' = lastSleep
          /\ rpc = "sleep" => rpc' = "check"
          /\ rpc' = "sleep" => rpc = "recheck"
          /\ rMarket = "closed_after_round" => rMarket' \in {"open", "closed"}
          /\ (rpc' = "fetch" /\ rpc # "pause") => (rpc = "check" /\ rMarket' = "open") ]_vars

\* C17: after a complete round the loop sleeps check_interval exactly when
\* the market check made after the round reports open; when it reports
\* closed there is no sleep, the next step is the market check at the top of
\* the loop, and a round starts only from a market check that reports open.
C17_BetweenCycles == []C17_AfterRound /\ C17_Steps

\* The market closed during a round of the whole watch-list: back at the
\* market check, the latest sleep being the pause after the last symbol.
C17_Witness ==
    /\ program = "rsi" /\ rpc = "check" /\ rMarket = "closed_after_round"
    /\ roundLog # None /\ roundLog.total = Len(stock_list)
    /\ lastSleep = SymbolPause /\ ~stopSignal

(***************************************************************************)
(* Alerts of the RSI monitor                                               *)
(***************************************************************************)
\* The RSI as computed for the k-th symbol, before the result rounds it
BelowThreshold(k) ==
    fetches[k].rsi # NaN /\ PlaceOf(fetches[k].rsi) < Thousandths(RsiThreshold)

C18_PerSymbol ==
    program = "rsi" =>
       /\ \A k \in Checked :
             IF results[k].success
             THEN /\ Len(fetches[k].sends) = (IF BelowThreshold(k) THEN 1 ELSE 0)
                  /\ results[k].alert_sent <=> (fetches[k].sends = <<TRUE>>)
             ELSE fetches[k].sends = <<>>

C18_PerRound ==
    RsiRoundDone =>
       /\ Len(results) = Len(stock_list)
       /\ roundLog.alerts_sent =
             Cardinality({k \in 1..Len(results) :
                 /\ results[k].success /\ BelowThreshold(k)
                 /\ fetches[k].sends = <<TRUE>>})

\* C18: for a symbol evaluated with success, check_rsi_alert makes one send
\* attempt when the RSI is strictly below the threshold and none otherwise;
\* alert_sent is true exactly when that send returned success; a failed send
\* leaves success=true and alert_sent=false and the round goes on to the end
\* of the watch-list; the alerts-sent count of the round is the number of
\* symbols below the threshold whose send succeeded.
C18_Alerting == C18_PerSymbol /\ C18_PerRound

\* A round in which the first alert could not be delivered, the second was
\* delivered, and the third symbol sat exactly on the threshold.
C18_Witness ==
    /\ RsiRoundDone /\ Len(results) >= 3
    /\ results[1].success /\ ~results[1].alert_sent /\ fetches[1].sends = <<FALSE>>
    /\ results[2].success /\ results[2].alert_sent
    /\ results[3].success /\ fetches[3].rsi = Plain(Thousandths(RsiThreshold))
    /\ fetches[3].sends = <<>>
    /\ roundLog.alerts_sent = 1

(***************************************************************************)
(* Performance lookback of the value monitor                               *)
(***************************************************************************)
\* Percentage change from the close n bars before the latest bar to the
\* latest close, in tenths rounded down
ChangeOver(closes, n) ==
    LET latest == closes[Len(closes)]
        before == closes[Len(closes) - n]
    IN  (Tenths(100) * (latest - before)) \div before

\* C19: perf_1m and perf_3m are the percentage changes between the latest
\* close and the close exactly 21 and 63 bars before the latest bar; a
\* series that does not hold the bar 63 before the latest is reported with
\* success=false.
C19_AsClaimed ==
    Returned("get_stock_analysis") =>
       IF Len(Closes) <= Lookback3m
       THEN ~ret.value.success
       ELSE /\ ret.value.success
            /\ ret.value.performance.p1m = ChangeOver(Closes, Lookback1m)
            /\ ret.value.performance.p3m = ChangeOver(Closes, Lookback3m)

(***************************************************************************)
(* Status notification of the closed market                                *)
(***************************************************************************)
\* C20: in one continuous closed period the market check that first finds
\* the market closed sends the status notification, and the later checks of
\* the same period send none.
C20_AsClaimed ==
    [][ (program = "rsi" /\ rpc = "check" /\ rMarket' = "closed") =>
           IF rMarket # "closed"
           THEN notices' = Append(notices, "status")
           ELSE notices' = notices ]_vars

(***************************************************************************)
(* MACD: histogram and crossover                                           *)
(***************************************************************************)
\* The successful analyses get_stock_analysis has produced
ProducedAnalyses ==
    IF program = "value"
    THEN {analyses[k] : k \in {j \in 1..Len(analyses) : Successful(analyses[j])}}
    ELSE IF Returned("get_stock_analysis") /\ ret.value.success THEN {ret.value}
    ELSE {}

ReasonsOf(opportunity) ==
    IF opportunity = None THEN {}
    ELSE {opportunity.reasons[j] : j \in 1..Len(opportunity.reasons)}

\* C21: in every analysis crossover is macd > signal, the histogram has
\* the sign of macd - signal (positive exactly when macd is above signal,
\* NaN exactly when either is NaN), so crossover is true exactly when the
\* histogram is above 0; the MACD group adds 0 or 2 to the score, never 1,
\* and no opportunity carries the reason of the +1 branch.
C21_MacdNeverOne ==
    /\ \A a \in ProducedAnalyses :
          /\ a.macd.crossover <=> FGt(a.macd.macd, a.macd.signal)
          /\ FGt(a.macd.histogram, 0) <=> FGt(a.macd.macd, a.macd.signal)
          /\ FLt(a.macd.histogram, 0) <=> FLt(a.macd.macd, a.macd.signal)
          /\ (a.macd.histogram = NaN) <=> (a.macd.macd = NaN \/ a.macd.signal = NaN)
          /\ a.macd.crossover <=> FGt(a.macd.histogram, 0)
          /\ MacdDelta(a) \in {0, 2}
          /\ "MACD iniciando giro alcista" \notin ReasonsOf(classify_opportunity(a))
    /\ program = "value" =>
          \A j \in 1..Len(opportunities) :
             "MACD iniciando giro alcista" \notin ReasonsOf(opportunities[j].opportunity)

\* A cycle with a MACD above its signal, scored 2 by the MACD group, next to
\* a MACD below its signal.
C21_Witness ==
    /\ program = "value" /\ vpc = "done" /\ Len(analyses) >= 2
    /\ Successful(analyses[1]) /\ Successful(analyses[2])
    /\ analyses[1].macd.crossover /\ analyses[1].macd.histogram > 0
    /\ MacdDelta(analyses[1]) = 2
    /\ "MACD cruzando alcista" \in ReasonsOf(opportunities[1].opportunity)
    /\ ~analyses[2].macd.crossover /\ analyses[2].macd.histogram < 0

(***************************************************************************)
(* monitor_stocks on the class as the script defines it                    *)
(***************************************************************************)
AsWritten == program = "rsi" /\ ~clockDefined

\* Before the loop: main() sending its start message, monitor_stocks
\* logging its banner.
BeforeLoop == rpc \in {"start", "banner"}

C22_OnlyCheckAndBackoff ==
    AsWritten =>
       /\ BeforeLoop \/ rpc \in {"check", "backoff", "stopped", "interrupted"}
       /\ BeforeLoop => (rMarket = "unchecked" /\ lastSleep = 0)
       /\ rMarket \in {"unchecked", "raised"}
       /\ fetches = <<>> /\ results = <<>> /\ roundLog = None
       /\ notices \in {<<>>, <<"start">>}
       /\ rpc \in {"check", "backoff"} => notices = <<"start">>
       /\ lastSleep \in {0, ErrorBackoff}
       /\ RsiTerminal <=> stopSignal

C22_Alternates ==
    [][ (AsWritten /\ ~stopSignal') =>
          /\ rpc = "check" =>
                (rpc' = "backoff" /\ rMarket' = "raised" /\ lastSleep' = ErrorBackoff)
          /\ rpc = "backoff" => rpc' = "check" ]_vars

\* C22: the class of rsi_monitor_github.py defines neither is_market_open
\* nor get_next_market_open, and the script does not import pytz; every
\* iteration of monitor_stocks raises at the market check, is caught by the
\* generic handler and sleeps 300 seconds before the next market check.  The
\* loop, once entered, is only ever at the market check or in the backoff
\* until the stop signal ends it: no symbol is evaluated, no round is
\* summarised, and monitor_stocks sends neither an alert nor a status
\* notification; the only message is the start message of main().
C22_ClockMissing == []C22_OnlyCheckAndBackoff /\ C22_Alternates

\* In the backoff for the second time in a row, nothing evaluated or sent.
C22_Witness ==
    /\ AsWritten /\ rpc = "backoff" /\ consecErrors = 2 /\ rMarket = "raised"
    /\ fetches = <<>> /\ notices = <<"start">> /\ ~stopSignal

====
